---- MODULE Spec2Model ----
(***************************************************************************)
(* The PNG chunk codec of rust-png-cryptex: the 4-byte chunk type          *)
(* (src/src/chunk_type.rs) and the chunk record (src/src/chunk.rs).        *)
(*                                                                         *)
(* Encodings.  A byte is an integer 0..255.  A Rust char is its Unicode    *)
(* code point.  An Option is a sequence of zero or one element.  A u32     *)
(* that can exceed 2^31 - 1 (the CRC) is a record [hi, lo] of its two      *)
(* 16-bit halves, its value being hi * 65536 + lo.  The outcome of a call  *)
(* is [status, value, err]: status "Ok" with the returned value, status    *)
(* "Err" with the returned message, or status "Panic" when the call        *)
(* unwinds (index out of bounds, unwrap of an Err).                        *)
(***************************************************************************)
EXTENDS Integers, Sequences, FiniteSets, TLC

VARIABLES op, arg, ret, ctype, chunk, made, wire

vars == <<op, arg, ret, ctype, chunk, made, wire>>

-----------------------------------------------------------------------------
(* Bounds of the model *)

\* longest text handed to ChunkType::from_str
MaxStrLen == 5

\* longest payload handed to Chunk::new or framed into a parse input
MaxDataLen == 2

-----------------------------------------------------------------------------
(* Outcomes *)

None == <<>>

Some(x) == <<x>>

Ok(v) == [status |-> "Ok", value |-> Some(v), err |-> ""]

Err(msg) == [status |-> "Err", value |-> None, err |-> msg]

Panic == [status |-> "Panic", value |-> None, err |-> ""]

-----------------------------------------------------------------------------
(* Integer helpers *)

RECURSIVE BitAnd(_, _)
BitAnd(a, b) ==
    IF a = 0 \/ b = 0 THEN 0
    ELSE (a % 2) * (b % 2) + 2 * BitAnd(a \div 2, b \div 2)

RECURSIVE BitXor(_, _)
BitXor(a, b) ==
    IF a = 0 THEN b
    ELSE IF b = 0 THEN a
    ELSE ((a + b) % 2) + 2 * BitXor(a \div 2, b \div 2)

RECURSIVE Pow(_, _)
Pow(base, e) == IF e = 0 THEN 1 ELSE base * Pow(base, e - 1)

\* n as u32, for 0 <= n < 2^31: the low 32 bits, taken in 16-bit halves
AsU32(n) == ((n \div 65536) % 65536) * 65536 + (n % 65536)

-----------------------------------------------------------------------------
(* std::str::from_utf8 *)

IsCont(b) == 128 <= b /\ b <= 191

\* the width of the well-formed UTF-8 sequence bs starts with, 0 if none
Utf8Width(bs) ==
    LET n == Len(bs)
        b0 == bs[1]
    IN  IF b0 < 128 THEN 1
        ELSE IF 194 <= b0 /\ b0 <= 223
            THEN IF n >= 2 /\ IsCont(bs[2]) THEN 2 ELSE 0
        ELSE IF 224 <= b0 /\ b0 <= 239
            THEN IF /\ n >= 3
                    /\ IsCont(bs[2])
                    /\ IsCont(bs[3])
                    /\ (b0 = 224 => bs[2] >= 160)
                    /\ (b0 = 237 => bs[2] <= 159)
                 THEN 3 ELSE 0
        ELSE IF 240 <= b0 /\ b0 <= 244
            THEN IF /\ n >= 4
                    /\ IsCont(bs[2])
                    /\ IsCont(bs[3])
                    /\ IsCont(bs[4])
                    /\ (b0 = 240 => bs[2] >= 144)
                    /\ (b0 = 244 => bs[2] <= 143)
                 THEN 4 ELSE 0
        ELSE 0

\* the code point of the well-formed sequence of width w that bs starts with
Utf8CodePoint(bs, w) ==
    IF w = 1 THEN bs[1]
    ELSE IF w = 2 THEN (bs[1] % 32) * 64 + (bs[2] % 64)
    ELSE IF w = 3 THEN (bs[1] % 16) * 4096 + (bs[2] % 64) * 64 + (bs[3] % 64)
    ELSE (bs[1] % 8) * 262144 + (bs[2] % 64) * 4096 + (bs[3] % 64) * 64 + (bs[4] % 64)

RECURSIVE from_utf8(_)
\* Ok(the chars of the text) or Err, as std::str::from_utf8 decides
from_utf8(bs) ==
    IF bs = <<>> THEN Ok(<<>>)
    ELSE LET w == Utf8Width(bs)
         IN  IF w = 0 THEN Err("Utf8Error")
             ELSE LET rest == from_utf8(SubSeq(bs, w + 1, Len(bs)))
                  IN  IF rest.status = "Ok"
                      THEN Ok(<<Utf8CodePoint(bs, w)>> \o rest.value[1])
                      ELSE rest

-----------------------------------------------------------------------------
(* chunk_type.rs *)

fifth_bit_to_bool(number) == BitAnd(number, 32) # 0

\* try_from with the private bit read from byte 0 instead of byte 1
ChunkType_try_from_misindexed(bytes) ==
    Ok([ancillary_bit    |-> fifth_bit_to_bool(bytes[1]),
        private_bit      |-> fifth_bit_to_bool(bytes[1]),
        reserved_bit     |-> fifth_bit_to_bool(bytes[3]),
        safe_to_copy_bit |-> fifth_bit_to_bool(bytes[4]),
        bytes            |-> bytes])

\* impl TryFrom<[u8; 4]> for ChunkType
ChunkType_try_from(bytes) ==
    Ok([ancillary_bit    |-> fifth_bit_to_bool(bytes[1]),
        private_bit      |-> fifth_bit_to_bool(bytes[2]),
        reserved_bit     |-> fifth_bit_to_bool(bytes[3]),
        safe_to_copy_bit |-> fifth_bit_to_bool(bytes[4]),
        bytes            |-> bytes])

IsLetter(c) == (97 <= c /\ c <= 122) \/ (65 <= c /\ c <= 90)

\* char::encode_utf8: the UTF-8 bytes of the code point c
encode_utf8(c) ==
    IF c < 128 THEN <<c>>
    ELSE IF c < 2048 THEN <<192 + (c \div 64), 128 + (c % 64)>>
    ELSE IF c < 65536
        THEN <<224 + (c \div 4096), 128 + ((c \div 64) % 64), 128 + (c % 64)>>
    ELSE <<240 + (c \div 262144), 128 + ((c \div 4096) % 64),
           128 + ((c \div 64) % 64), 128 + (c % 64)>>

RECURSIVE FromStrLoop(_, _, _)
\* the loop of from_str over val.chars().enumerate(), from char number
\* index (0-based) with the array bytes filled so far: the array after the
\* loop, Err on a char that is no letter, Panic on an encoding longer than
\* the 1-byte buffer and on bytes[index] with index >= 4
FromStrLoop(val, index, bytes) ==
    IF index >= Len(val) THEN Ok(bytes)
    ELSE LET char == val[index + 1]
         IN  IF IsLetter(char)
             THEN LET byte == encode_utf8(char)
                  IN  IF Len(byte) > 1 \/ index >= 4 THEN Panic
                      ELSE FromStrLoop(val, index + 1,
                                       [bytes EXCEPT ![index + 1] = byte[1]])
             ELSE Err("String input should only contain characters A-Z or a-z")

\* from_str with the reserved bit read from byte 3 instead of byte 2
ChunkType_from_str_misindexed(val) ==
    LET loop == FromStrLoop(val, 0, <<0, 0, 0, 0>>)
    IN  IF loop.status # "Ok" THEN loop
        ELSE LET bytes == loop.value[1]
             IN  Ok([ancillary_bit    |-> fifth_bit_to_bool(bytes[1]),
                     private_bit      |-> fifth_bit_to_bool(bytes[2]),
                     reserved_bit     |-> fifth_bit_to_bool(bytes[4]),
                     safe_to_copy_bit |-> fifth_bit_to_bool(bytes[4]),
                     bytes            |-> bytes])

\* impl FromStr for ChunkType
ChunkType_from_str(val) ==
    LET loop == FromStrLoop(val, 0, <<0, 0, 0, 0>>)
    IN  IF loop.status # "Ok" THEN loop
        ELSE LET bytes == loop.value[1]
             IN  Ok([ancillary_bit    |-> fifth_bit_to_bool(bytes[1]),
                     private_bit      |-> fifth_bit_to_bool(bytes[2]),
                     reserved_bit     |-> fifth_bit_to_bool(bytes[3]),
                     safe_to_copy_bit |-> fifth_bit_to_bool(bytes[4]),
                     bytes            |-> bytes])

\* impl Display for ChunkType, through to_string()
ChunkType_fmt(self) ==
    LET output == from_utf8(self.bytes)
    IN  IF output.status = "Ok" THEN Ok(output.value[1]) ELSE Panic

\* #[derive(PartialEq)] on ChunkType: field by field
ChunkType_eq(a, b) ==
    /\ a.ancillary_bit = b.ancillary_bit
    /\ a.private_bit = b.private_bit
    /\ a.reserved_bit = b.reserved_bit
    /\ a.safe_to_copy_bit = b.safe_to_copy_bit
    /\ a.bytes = b.bytes

bytes(self) == self.bytes

is_valid(self) == ~self.reserved_bit

is_critical(self) == ~self.ancillary_bit

is_public(self) == ~self.private_bit

is_reserved_bit_valid(self) == ~self.reserved_bit

is_safe_to_copy(self) == self.safe_to_copy_bit

-----------------------------------------------------------------------------
(* crc::Crc::<u32>::new(&crc::CRC_32_ISO_HDLC).checksum *)

\* one bit of the reflected CRC-32 register: shift right, and xor the
\* reflected polynomial 0xEDB88320 in when the bit shifted out is 1
CrcShift(reg) ==
    LET shifted == [hi |-> reg.hi \div 2,
                    lo |-> (reg.lo \div 2) + (reg.hi % 2) * 32768]
    IN  IF reg.lo % 2 = 1
        THEN [hi |-> BitXor(shifted.hi, 60856), lo |-> BitXor(shifted.lo, 33568)]
        ELSE shifted

\* the register after the 8 bits of one byte
CrcByte(reg, byte) ==
    LET r0 == [hi |-> reg.hi, lo |-> BitXor(reg.lo, byte)]
    IN  CrcShift(CrcShift(CrcShift(CrcShift(
            CrcShift(CrcShift(CrcShift(CrcShift(r0))))))))

RECURSIVE CrcRange(_, _, _, _)
\* the register after data[lo..hi], from reg: the bytes in order, the range
\* halved so that the evaluation stays shallow on long inputs
CrcRange(reg, data, lo, hi) ==
    IF reg.lo < 0 \/ lo > hi THEN reg
    ELSE IF lo = hi THEN CrcByte(reg, data[lo])
    ELSE LET mid == (lo + hi) \div 2
         IN  CrcRange(CrcRange(reg, data, lo, mid), data, mid + 1, hi)

\* the register after data, from 0xFFFFFFFF
CrcRegister(data) == CrcRange([hi |-> 65535, lo |-> 65535], data, 1, Len(data))

\* CRC-32/ISO-HDLC: init 0xFFFFFFFF, reflected, xorout 0xFFFFFFFF
checksum(data) ==
    LET reg == CrcRegister(data)
    IN  [hi |-> 65535 - reg.hi, lo |-> 65535 - reg.lo]

-----------------------------------------------------------------------------
(* u32 <-> bytes *)

\* the u32 of value n, 0 <= n < 2^31
U32(n) == [hi |-> (n \div 65536) % 65536, lo |-> n % 65536]

from_be_bytes(b) == [hi |-> b[1] * 256 + b[2], lo |-> b[3] * 256 + b[4]]

to_be_bytes(u) == <<u.hi \div 256, u.hi % 256, u.lo \div 256, u.lo % 256>>

-----------------------------------------------------------------------------
(* chunk.rs *)

RECURSIVE DataLengthLoop(_, _, _)
\* for entry in 0..4 { data_length += value[entry] as u32 * base.pow(3 - entry) }
\* with base = 2, from entry on with data_length so far
DataLengthLoop(value, entry, data_length) ==
    IF entry >= 4 THEN data_length
    ELSE DataLengthLoop(value, entry + 1,
                        AsU32(data_length + value[entry + 1] * Pow(2, 3 - entry)))

\* impl TryFrom<&[u8]> for Chunk
Chunk_try_from(value) ==
    IF Len(value) <= 0 THEN Err("No data found")
    ELSE IF Len(value) < 4 THEN Panic                    \* value[entry]
    ELSE LET data_length == DataLengthLoop(value, 0, 0)
         IN  IF Len(value) < 8 THEN Panic                \* value[4..8]
             ELSE IF Len(value) < 8 + data_length THEN Panic
                                                         \* value[8 .. 8 + data_length]
             ELSE IF Len(value) - (data_length + 8) < 4 THEN Panic
                                                         \* value[data_length + 8 ..][0..4]
             ELSE LET chunk_type == ChunkType_try_from(SubSeq(value, 5, 8)).value[1]
                      chunk_data == SubSeq(value, 9, 8 + data_length)
                      crc == from_be_bytes(SubSeq(value, data_length + 9,
                                                  data_length + 12))
                      expected_crc == checksum(bytes(chunk_type) \o chunk_data)
                  IN  IF expected_crc # crc THEN Err("CRC comparison failed.")
                      ELSE Ok([length     |-> data_length,
                               chunk_type |-> chunk_type,
                               chunk_data |-> chunk_data,
                               crc        |-> crc])

\* new with the 4 type bytes counted into the length
Chunk_new_counts_type(chunk_type, data) ==
    [length     |-> AsU32(Len(data) + 4),
     chunk_type |-> chunk_type,
     chunk_data |-> data,
     crc        |-> checksum(chunk_type.bytes \o data)]

Chunk_new(chunk_type, data) ==
    [length     |-> AsU32(Len(data)),
     chunk_type |-> chunk_type,
     chunk_data |-> data,
     crc        |-> checksum(bytes(chunk_type) \o data)]

length(self) == self.length

chunk_type(self) == self.chunk_type

data(self) == self.chunk_data

crc(self) == self.crc

as_bytes(self) == self.chunk_data

-----------------------------------------------------------------------------
(* Inputs *)

SeqsUpTo(S, n) == UNION {[1..k -> S] : k \in 0..n}

\* 'R', 'u' and the non-letter '1'
CharVals == {82, 117, 49}

StrInputs == SeqsUpTo(CharVals, MaxStrLen)

\* 'R' and 'u' (bit 5 clear, set), and 0xA9 (no ASCII, bit 5 set)
TypeByteVals == {82, 117, 169}

TypeArrays ==
    {<<a, b, c, d>> : a \in TypeByteVals, b \in TypeByteVals,
                      c \in TypeByteVals, d \in TypeByteVals}

\* every type code the two constructors return on these inputs
TypeVals ==
    {ChunkType_try_from(b).value[1] : b \in TypeArrays}
    \cup {ChunkType_from_str(s).value[1] :
             s \in {x \in StrInputs : ChunkType_from_str(x).status = "Ok"}}

\* "RuSt" and "Rust"
ChunkTypeTexts == {<<82, 117, 83, 116>>, <<82, 117, 115, 116>>}

\* "RuSt", the type of the frames the tests build
FrameTypes == {<<82, 117, 83, 116>>}

ChunkTypeVals == {ChunkType_from_str(s).value[1] : s \in ChunkTypeTexts}

DataByteVals == {65, 255}

Payloads == SeqsUpTo(DataByteVals, MaxDataLen)

\* the 4 bytes in front of a frame: byte 2 zero or one, byte 3 a small count
Headers == {<<0, 0, b2, b3>> : b2 \in 0..1, b3 \in 0..MaxDataLen}

\* c - 1 in u32 (wrapping)
U32Pred(c) ==
    IF c.lo > 0 THEN [hi |-> c.hi, lo |-> c.lo - 1]
    ELSE IF c.hi > 0 THEN [hi |-> c.hi - 1, lo |-> 65535]
    ELSE [hi |-> 65535, lo |-> 65535]

\* the buffer the tests build: length bytes, type, message, crc bytes
Frame(h, t, d, c) == h \o t \o d \o to_be_bytes(c)

\* each frame with the checksum of its type and message, and with that
\* checksum less one
Frames ==
    UNION {{Frame(h, t, d, checksum(t \o d)), Frame(h, t, d, U32Pred(checksum(t \o d)))} :
              h \in Headers, t \in FrameTypes, d \in Payloads}

Zeros(n) == [i \in 1..n |-> 0]

\* every prefix of a frame, and every frame followed by 1 or by 256 zero bytes
WireInputs ==
    UNION {{SubSeq(f, 1, k) : k \in 0..Len(f)} : f \in Frames}
    \cup {f \o Zeros(p) : f \in Frames, p \in {1, 256}}

\* Chunk::try_from on every input, evaluated once
ParseTable == [value \in WireInputs |-> Chunk_try_from(value)]

-----------------------------------------------------------------------------
(* Chunk type operations (SpecType) *)

Init ==
    /\ op = "init"
    /\ arg = None
    /\ ret = [status |-> "Ok", value |-> None, err |-> ""]
    /\ ctype = None
    /\ chunk = None
    /\ made = None
    /\ wire = None

\* let t = ChunkType::try_from(b)
TypeTryFrom ==
    \E b \in TypeArrays :
        /\ op' = "ChunkType::try_from"
        /\ arg' = b
        /\ ret' = ChunkType_try_from(b)
        /\ ctype' = ret'.value
        /\ UNCHANGED <<chunk, made, wire>>

\* let t = ChunkType::from_str(s)
TypeFromStr ==
    \E s \in StrInputs :
        /\ op' = "ChunkType::from_str"
        /\ arg' = s
        /\ ret' = ChunkType_from_str(s)
        /\ ctype' = ret'.value
        /\ UNCHANGED <<chunk, made, wire>>

\* t.to_string()
TypeDisplay ==
    /\ ctype # None
    /\ op' = "ChunkType::fmt"
    /\ arg' = ctype[1]
    /\ ret' = ChunkType_fmt(ctype[1])
    /\ UNCHANGED <<ctype, chunk, made, wire>>

\* t == o
TypeEq ==
    /\ ctype # None
    /\ \E o \in TypeVals :
        /\ op' = "ChunkType::eq"
        /\ arg' = o
        /\ ret' = Ok(ChunkType_eq(ctype[1], o))
    /\ UNCHANGED <<ctype, chunk, made, wire>>

NextType == TypeTryFrom \/ TypeFromStr \/ TypeDisplay \/ TypeEq

SpecType == Init /\ [][NextType]_vars

-----------------------------------------------------------------------------
(* Chunk operations (Spec) *)

\* let c = Chunk::new(t, d)
ChunkNew ==
    \E t \in ChunkTypeVals, d \in Payloads :
        /\ op' = "Chunk::new"
        /\ arg' = <<t, d>>
        /\ ret' = Ok(Chunk_new(t, d))
        /\ chunk' = ret'.value
        /\ made' = Some([t |-> t, d |-> d])
        /\ wire' = None
        /\ UNCHANGED ctype

\* let c = Chunk::try_from(value)
ChunkTryFrom ==
    \E value \in WireInputs :
        /\ op' = "Chunk::try_from"
        /\ arg' = value
        /\ ret' = ParseTable[value]
        /\ chunk' = ret'.value
        /\ made' = None
        /\ wire' = None
        /\ UNCHANGED ctype

\* let w = c.as_bytes()
ChunkAsBytes ==
    /\ chunk # None
    /\ op' = "Chunk::as_bytes"
    /\ arg' = chunk[1]
    /\ ret' = Ok(as_bytes(chunk[1]))
    /\ wire' = ret'.value
    /\ UNCHANGED <<ctype, chunk, made>>

\* Chunk::try_from(&w)
ChunkReparse ==
    /\ wire # None
    /\ op' = "Chunk::try_from(as_bytes)"
    /\ arg' = wire[1]
    /\ ret' = Chunk_try_from(wire[1])
    /\ UNCHANGED <<ctype, chunk, made, wire>>

Next == ChunkNew \/ ChunkTryFrom \/ ChunkAsBytes \/ ChunkReparse

Spec == Init /\ [][Next]_vars

-----------------------------------------------------------------------------
(* Properties *)

\* bytes 0..3 of a buffer read as a big-endian unsigned 32-bit integer
BigEndian(b) == b[1] * 16777216 + b[2] * 65536 + b[3] * 256 + b[4]

\* bit 5 (0x20) of a byte
Bit5(b) == (b \div 32) % 2 = 1

\* the error kinds of the specification, by the message the code returns
ErrKind(r) ==
    IF r.status # "Err" THEN "none"
    ELSE IF r.err = "No data found" THEN "EmptyInput"
    ELSE IF r.err = "CRC comparison failed." THEN "CrcMismatch"
    ELSE IF r.err = "String input should only contain characters A-Z or a-z"
        THEN "InvalidCharacter"
    ELSE r.err

AllLetters(s) == \A i \in 1..Len(s) : IsLetter(s[i])

\* C1: parsing the bytes as_bytes returns for Chunk::new(t, d) succeeds and
\* yields length = d.len(), type = t, payload = d and
\* checksum = crc32(t.bytes ++ d).
C1_RoundTrip ==
    (op = "Chunk::try_from(as_bytes)" /\ made # None) =>
        /\ ret.status = "Ok"
        /\ length(ret.value[1]) = Len(made[1].d)
        /\ chunk_type(ret.value[1]) = made[1].t
        /\ data(ret.value[1]) = made[1].d
        /\ crc(ret.value[1]) = checksum(bytes(made[1].t) \o made[1].d)

\* C2: as_bytes returns exactly 12 + length bytes: the length as 4
\* big-endian bytes, the 4 type bytes, the payload, the checksum as 4
\* big-endian bytes.
C2_SerializeWireForm ==
    op = "Chunk::as_bytes" =>
        /\ Len(ret.value[1]) = 12 + length(arg)
        /\ ret.value[1] = to_be_bytes(U32(length(arg))) \o bytes(chunk_type(arg))
                            \o data(arg) \o to_be_bytes(crc(arg))

\* C3: on every buffer Chunk::try_from accepts, the returned length is bytes
\* 0..3 read big-endian and the returned payload is buffer[8 .. 8 + length].
C3_BigEndianLength ==
    (op = "Chunk::try_from" /\ ret.status = "Ok") =>
        /\ length(ret.value[1]) = BigEndian(arg)
        /\ data(ret.value[1]) = SubSeq(arg, 9, 8 + BigEndian(arg))

\* C4: every record Chunk::new or Chunk::try_from returns has
\* crc = crc32(type bytes ++ payload); and a buffer that holds 12 + N bytes,
\* N its big-endian declared length, whose stored checksum at [8+N .. 12+N]
\* differs from crc32 of bytes [4 .. 8+N) is refused with the CRC error.
C4_ChecksumInvariant ==
    /\ (op \in {"Chunk::new", "Chunk::try_from"} /\ ret.status = "Ok") =>
           crc(ret.value[1])
               = checksum(bytes(chunk_type(ret.value[1])) \o data(ret.value[1]))
    /\ (/\ op = "Chunk::try_from"
        /\ Len(arg) >= 12
        /\ Len(arg) >= 12 + BigEndian(arg)
        /\ from_be_bytes(SubSeq(arg, 9 + BigEndian(arg), 12 + BigEndian(arg)))
               # checksum(SubSeq(arg, 5, 8 + BigEndian(arg)))) =>
           (ErrKind(ret) = "CrcMismatch" /\ chunk = None)

\* C5: Chunk::try_from of a buffer too short for what it declares returns an
\* error and never aborts: EmptyInput for the empty buffer, TruncatedInput
\* for a non-empty buffer of fewer than 12 or of fewer than
\* 12 + declared length bytes.
C5_ShortInputIsError ==
    op = "Chunk::try_from" =>
        /\ arg = <<>> => ErrKind(ret) = "EmptyInput"
        /\ (arg # <<>> /\ (Len(arg) < 12 \/ Len(arg) < 12 + BigEndian(arg))) =>
               ErrKind(ret) = "TruncatedInput"

\* C6: ChunkType::from_str returns InvalidLength on every text that has not
\* exactly 4 characters, InvalidCharacter on every 4-character text with a
\* character outside A-Z/a-z, succeeds only on 4 ASCII letters, and never
\* aborts.
C6_FromStrRejects ==
    op = "ChunkType::from_str" =>
        /\ ret.status # "Panic"
        /\ Len(arg) # 4 => ErrKind(ret) = "InvalidLength"
        /\ (Len(arg) = 4 /\ ~AllLetters(arg)) => ErrKind(ret) = "InvalidCharacter"
        /\ ret.status = "Ok" => (Len(arg) = 4 /\ AllLetters(arg))

\* C7: ChunkType::try_from of any 4 bytes b succeeds with bytes() = b, and
\* is_critical iff bit 5 of b[0] is clear, is_public iff bit 5 of b[1] is
\* clear, is_valid and is_reserved_bit_valid iff bit 5 of b[2] is clear,
\* is_safe_to_copy iff bit 5 of b[3] is set.
C7_FlagsFromBit5 ==
    op = "ChunkType::try_from" =>
        /\ ret.status = "Ok"
        /\ bytes(ret.value[1]) = arg
        /\ is_critical(ret.value[1]) <=> ~Bit5(arg[1])
        /\ is_public(ret.value[1]) <=> ~Bit5(arg[2])
        /\ is_valid(ret.value[1]) <=> ~Bit5(arg[3])
        /\ is_reserved_bit_valid(ret.value[1]) <=> ~Bit5(arg[3])
        /\ is_safe_to_copy(ret.value[1]) <=> Bit5(arg[4])

\* a critical, private, valid, safe-to-copy code built from the bytes "RuRu"
C7_Witness ==
    /\ op = "ChunkType::try_from"
    /\ arg = <<82, 117, 82, 117>>
    /\ ret.status = "Ok"
    /\ is_critical(ctype[1])
    /\ ~is_public(ctype[1])
    /\ is_valid(ctype[1])
    /\ is_safe_to_copy(ctype[1])

\* C8: rendering a type code as text never aborts: it yields the 4 bytes as
\* text when they are valid text, and an error otherwise.
C8_DisplayNeverAborts ==
    op = "ChunkType::fmt" =>
        IF from_utf8(bytes(arg)).status = "Ok"
        THEN ret = Ok(from_utf8(bytes(arg)).value[1])
        ELSE ret.status = "Err"

\* C9: every record Chunk::new or a successful Chunk::try_from returns has
\* length() = data().len().
C9_LengthInvariant ==
    /\ (op \in {"Chunk::new", "Chunk::try_from"} /\ ret.status = "Ok") =>
           length(ret.value[1]) = Len(data(ret.value[1]))
    /\ chunk # None => length(chunk[1]) = Len(data(chunk[1]))

\* a record parsed from a frame whose payload is not empty
C9_Witness ==
    /\ op = "Chunk::try_from"
    /\ ret.status = "Ok"
    /\ Len(data(chunk[1])) = 2
    /\ length(chunk[1]) = 2

\* C10: on a text of 4 ASCII letters from_str returns the code that try_from
\* returns on the 4 ASCII bytes of the text, under the type's equality; and
\* two codes are equal iff their 4 bytes are equal.
C10_FromStrEqualsTryFrom ==
    /\ (op = "ChunkType::from_str" /\ Len(arg) = 4 /\ AllLetters(arg)) =>
           /\ ret.status = "Ok"
           /\ ChunkType_eq(ret.value[1], ChunkType_try_from(arg).value[1])
    /\ op = "ChunkType::eq" =>
           (ret.value[1] <=> bytes(ctype[1]) = bytes(arg))

\* from_str("RuRu") returned a code equal to try_from([82, 117, 82, 117])
C10_Witness ==
    /\ op = "ChunkType::from_str"
    /\ arg = <<82, 117, 82, 117>>
    /\ ret.status = "Ok"
    /\ ChunkType_eq(ctype[1], ChunkType_try_from(<<82, 117, 82, 117>>).value[1])

====
